---- MODULE Spec2Model ----
(***************************************************************************)
(* Capture-based GraphQL mock pipeline of playwright-mocking-lab:          *)
(* operation extraction from a HAR archive (mocks/graphql/mock-extractor)  *)
(* and the merge of a freshly recorded session into the stored archive     *)
(* (scripts/record-interactive).                                           *)
(***************************************************************************)
EXTENDS Integers, Sequences, FiniteSets, TLC

VARIABLES
    harFile,        \* mocks/graphql-operations.har          (HAR_PATH)
    newHarFile,     \* mocks/graphql-operations.har.new      (HAR_PATH + ".new")
    existingIn,     \* history: HAR_PATH as it was when the run started
    newIn,          \* history: HAR_PATH.new as it was when the run started
    phase,          \* "ready" before the script ran, "done" after
    outcome,        \* what mergeHarFiles reported on the console
    newOps,         \* summary list "Added ... NEW operation(s)"
    updatedOps,     \* summary list "Updated ... EXISTING operation(s)"
    operations,     \* value returned by extractGraphQLOperations
    mocks,          \* value returned by extractGraphQLMocks (a Map, in insertion order)
    ran,            \* which of the two extractors have returned
    cleanupDone,    \* recordInteractive: let cleanupDone
    context,        \* the recording browser context: "open", "closing", "closed", "dead"
    capture,        \* the exchanges the context has recorded and flushes on close
    exited,         \* process.exit(0) was called or the event loop ran empty
    pc,             \* where each async activity of the session is suspended
    local,          \* the local variables of each running mergeHarFiles
    reports,        \* the report each mergeHarFiles printed
    v1, v2,         \* two response values handed to generateSchemaHash
    h1, h2,         \* the hashes returned for them
    hashed,         \* generateSchemaHash has returned
    mockFiles,      \* the mock directory: operation name -> file <name>.mock.ts
    mockFilesIn,    \* the mock directory as it was before the run
    saved,          \* how saveGraphQLMocksToFiles ended: "none", "done", "threw"
    userOps,        \* validateMocks: const userOperations
    idx,            \* validateMocks: position of the for-loop in userOperations
    vpc,            \* validateMocks: the await it is suspended at
    results,        \* validateMocks: const results
    liveCalls,      \* the requests queryLiveServer has sent, each with its answer
    compared,       \* the operations compareSchemas has been called for
    registry,       \* mock-registry.ts: the names it imports and maps, in order
    rebuild,        \* how the last updateMockRegistry ended, "none" once a file changed
    graphqlMocks,   \* GRAPHQL_MOCKS as the test process has loaded it
    strictMode,     \* setupGraphQLMocks: strictMode
    routed,         \* what the route handler did with each intercepted request
    upc,            \* updateMocks: the await it is suspended at
    updOps,         \* updateMocks: const userOperations
    missingOperations, \* updateMocks: const missingOperations
    changedOperations, \* updateMocks: const changedOperations
    recorded,       \* the exchanges the re-recording context has captured
    savedAtDetect   \* the value of saved when updateMocks ran its detection

mergeVars   == <<harFile, newHarFile, existingIn, newIn, phase, outcome, newOps, updatedOps>>
extractVars == <<operations, mocks, ran>>
sessionVars == <<cleanupDone, context, capture, exited, pc, local, reports>>
hashVars    == <<v1, v2, h1, h2, hashed>>
artifactVars == <<mockFiles, mockFilesIn, saved>>
validateVars == <<userOps, idx, vpc, results, liveCalls, compared>>
registryVars == <<registry, rebuild>>
routeVars    == <<graphqlMocks, strictMode, routed>>
updateVars   == <<upc, updOps, missingOperations, changedOperations, recorded, savedAtDetect>>
toolVars     == <<registryVars, routeVars, updateVars>>
vars        == <<mergeVars, extractVars, sessionVars, hashVars, artifactVars, validateVars, toolVars>>

(***************************************************************************)
(* Bounds of the model.                                                    *)
(***************************************************************************)
MaxExisting == 2    \* longest stored archive the merge is run on
MaxNew      == 2    \* longest freshly recorded archive the merge is run on
MaxArchive  == 3    \* longest archive the extractors are run on
MaxSigint   == 2    \* SIGINT deliveries during one recording session
MaxItems    == 2    \* longest array in a response value
MaxValidated == 2   \* longest archive the validator is run on

(***************************************************************************)
(* Data model.  A request body (postData.text) is modelled by what         *)
(* JSON.parse makes of it:                                                 *)
(*   kind "none"  postData absent or the empty string  (!postData)         *)
(*   kind "text"  not JSON: JSON.parse throws; `text` is the raw text      *)
(*   kind "json"  an object with the fields operationName and query        *)
(* Texts are sequences of whitespace-separated tokens.  A missing or       *)
(* falsy string field is the empty string / the empty token sequence.      *)
(***************************************************************************)
NoName == ""
INTROSPECTION == "IntrospectionQuery"

NoBody == [kind |-> "none", operationName |-> NoName, query |-> <<>>, text |-> <<>>]
JsonBody(name, query) ==
    [kind |-> "json", operationName |-> name, query |-> query, text |-> <<>>]
TextBody(text) ==
    [kind |-> "text", operationName |-> NoName, query |-> <<>>, text |-> text]

\* response.content.text: absent, not JSON, or JSON with a payload
NoResponse      == [kind |-> "none", value |-> ""]
BadResponse     == [kind |-> "text", value |-> "<html>"]
JsonResponse(v) == [kind |-> "json", value |-> v]

Entry(method, body, resp) == [method |-> method, postData |-> body, response |-> resp]

\* A HAR file on disk: absent, not JSON, JSON without log, or a log with entries.
AbsentFile     == [st |-> "absent", entries |-> <<>>]
UnparsableFile == [st |-> "unparsable", entries |-> <<>>]
NoLogFile      == [st |-> "nolog", entries |-> <<>>]
HarOf(entries) == [st |-> "ok", entries |-> entries]

SeqsUpTo(S, n) == UNION {[1..k -> S] : k \in 0..n}
FilesOver(S, n) == {AbsentFile, UnparsableFile, NoLogFile} \cup {HarOf(s) : s \in SeqsUpTo(S, n)}

(***************************************************************************)
(* Sample request texts and exchanges the archives are drawn from.         *)
(***************************************************************************)
qGetA    == <<"query", "GetA", "{", "a", "}">>
qGetA2   == <<"query", "GetA", "{", "a", "b", "}">>
qGetB    == <<"mutation", "GetB", "{", "b", "}">>
qGetB2   == <<"query", "GetB", "{", "b", "c", "}">>
qIntro   == <<"query", "IntrospectionQuery", "{", "__schema", "}">>
qAnon    == <<"{", "c", "}">>

eA1    == Entry("POST", JsonBody("GetA", qGetA), JsonResponse("a1"))
eA2    == Entry("POST", JsonBody("GetA", qGetA2), JsonResponse("a2"))
eB     == Entry("POST", JsonBody("GetB", qGetB), JsonResponse("b1"))
eDB    == Entry("POST", JsonBody(NoName, qGetB2), JsonResponse("b2"))
eIntro == Entry("POST", JsonBody(INTROSPECTION, qIntro), JsonResponse("schema"))
eGet   == Entry("GET", NoBody, JsonResponse("page"))
eText  == Entry("POST", TextBody(<<"not", "json">>), JsonResponse("t"))

MergeEntries == {eA1, eA2, eB, eDB, eIntro, eGet, eText}

\* further exchanges for the extractors: an introspection query named by its
\* text only, an anonymous query, a GET carrying a body, a non-JSON body that
\* holds a query keyword, and exchanges whose response is absent or not JSON
eDIntro == Entry("POST", JsonBody(NoName, qIntro), JsonResponse("schema"))
eAnon   == Entry("POST", JsonBody(NoName, qAnon), JsonResponse("c"))
eGetA   == Entry("GET", JsonBody("GetA", <<"query", "GetA", "{", "g", "}">>), JsonResponse("g"))
eTextA  == Entry("POST", TextBody(<<"query", "GetA", "{">>), JsonResponse("ta"))
eBNoRes == Entry("POST", JsonBody("GetB", qGetB), NoResponse)
eBBad   == Entry("POST", JsonBody("GetB", qGetB2), BadResponse)
eNoBody == Entry("POST", NoBody, JsonResponse("n"))

ExtractEntries ==
    {eA1, eA2, eDB, eIntro, eDIntro, eAnon, eGetA, eTextA, eBNoRes, eBBad, eGet, eNoBody}

(***************************************************************************)
(* mock-extractor.ts                                                       *)
(***************************************************************************)
IsWord(tok) == tok \notin {"{", "}", "(", ")", ""}

\* /(?:query|mutation)\s+(\w+)/ : the leftmost keyword followed by a word
RegexName(text) ==
    LET hits == {i \in 1..(Len(text) - 1) :
                    text[i] \in {"query", "mutation"} /\ IsWord(text[i + 1])}
    IN  IF hits = {} THEN NoName
        ELSE text[(CHOOSE i \in hits : \A j \in hits : i <= j) + 1]

extractOperationName(postData) ==
    CASE postData.kind = "none" -> NoName
      [] postData.kind = "json" ->
            IF postData.operationName # NoName THEN postData.operationName
            ELSE IF postData.query # <<>> THEN RegexName(postData.query)
            ELSE NoName
      [] OTHER -> RegexName(postData.text)

\* line 89: if (!operationName || operationName === "IntrospectionQuery") continue
SkipOperationKeepsIntrospection(operationName) == operationName = NoName
SkipOperation(operationName) == operationName = NoName \/ operationName = INTROSPECTION

\* line 90: if (seen.has(operationName)) continue
AlreadySeenNever(seen, operationName) == FALSE
AlreadySeen(seen, operationName) == operationName \in seen

\* lines 80-89: the name one loop iteration of extractGraphQLOperations gives an
\* entry, NoName when the iteration ends in `continue`.
OperationNameOf(entry) ==
    IF entry.method # "POST" THEN NoName
    ELSE IF entry.postData.kind # "json" THEN NoName
    ELSE LET operationName ==
                IF entry.postData.operationName # NoName
                THEN entry.postData.operationName
                ELSE extractOperationName(entry.postData)
         IN  IF SkipOperation(operationName) THEN NoName ELSE operationName

RECURSIVE ExtractLoop(_, _, _, _)
ExtractLoop(entries, i, seen, ops) ==
    IF i > Len(entries) THEN ops
    ELSE LET operationName == OperationNameOf(entries[i])
         IN  IF operationName = NoName \/ AlreadySeen(seen, operationName)
             THEN ExtractLoop(entries, i + 1, seen, ops)
             ELSE ExtractLoop(entries, i + 1, seen \cup {operationName},
                     Append(ops, [operationName |-> operationName,
                                  query |-> entries[i].postData.query]))

\* as it would be without the try/catch of lines 85-99: one body that does
\* not parse ends the loop in the outer catch of line 103
extractGraphQLOperationsOuterCatchOnly(file) ==
    IF file.st # "ok" THEN <<>>
    ELSE IF \E i \in 1..Len(file.entries) : file.entries[i].postData.kind = "text" THEN <<>>
    ELSE ExtractLoop(file.entries, 1, {}, <<>>)

extractGraphQLOperations(file) ==
    IF file.st # "ok" THEN <<>> ELSE ExtractLoop(file.entries, 1, {}, <<>>)

(***************************************************************************)
(* JSON values, as JSON.parse returns them.  An object is the sequence of  *)
(* its [key, value] pairs in insertion order; a scalar keeps its literal.  *)
(***************************************************************************)
JNull      == [t |-> "null", v |-> "", items |-> <<>>]
JNum(lit)  == [t |-> "number", v |-> lit, items |-> <<>>]
JStr(lit)  == [t |-> "string", v |-> lit, items |-> <<>>]
JArr(s)    == [t |-> "array", v |-> "", items |-> s]
JObj(kvs)  == [t |-> "object", v |-> "", items |-> kvs]
KV(k, x)   == [key |-> k, value |-> x]

ObjKeys(obj)   == {obj.items[i].key : i \in 1..Len(obj.items)}
ObjGet(obj, k) == obj.items[CHOOSE i \in 1..Len(obj.items) : obj.items[i].key = k].value

\* the property names of the model in the order Array.prototype.sort gives them
KeyOrder == <<"a", "b", "c", "data", "errors", "message">>

\* Object.keys(obj)
KeysInInsertionOrder(obj) == [i \in 1..Len(obj.items) |-> obj.items[i].key]
\* line 122: Object.keys(obj).sort()
SortedKeys(obj) == SelectSeq(KeyOrder, LAMBDA k : k \in ObjKeys(obj))

\* line 127: typeof obj
TypeOfAlwaysScalar(x) == "scalar"
TypeOf(x) == x.t

\* line 118: the shape of an array
ArrayShapeIgnoresEmptiness(x, first) == JArr(<<JStr("array")>>)
ArrayShape(x, first) ==
    IF Len(x.items) > 0 THEN JArr(<<JStr("array"), first>>)
    ELSE JArr(<<JStr("array"), JStr("empty")>>)

\* lines 114-128
RECURSIVE getStructure(_)
getStructure(obj) ==
    IF obj.t = "null" THEN JStr("null")
    ELSE IF obj.t = "array"
    THEN ArrayShape(obj, IF Len(obj.items) > 0 THEN getStructure(obj.items[1]) ELSE JNull)
    ELSE IF obj.t = "object"
    THEN LET keys == SortedKeys(obj)
         IN  JObj([i \in 1..Len(keys) |-> KV(keys[i], getStructure(ObjGet(obj, keys[i])))])
    ELSE JStr(TypeOf(obj))

\* JSON.stringify, as the sequence of the tokens of its output
Tok(kind, text) == <<kind, text>>

RECURSIVE Flatten(_)
Flatten(seqs) == IF seqs = <<>> THEN <<>> ELSE Head(seqs) \o Flatten(Tail(seqs))

RECURSIVE Stringify(_)
Stringify(x) ==
    CASE x.t = "null"   -> <<Tok("literal", "null")>>
      [] x.t = "array"  ->
            <<Tok("punct", "[")>>
            \o Flatten([i \in 1..Len(x.items) |->
                    (IF i > 1 THEN <<Tok("punct", ",")>> ELSE <<>>) \o Stringify(x.items[i])])
            \o <<Tok("punct", "]")>>
      [] x.t = "object" ->
            <<Tok("punct", "{")>>
            \o Flatten([i \in 1..Len(x.items) |->
                    (IF i > 1 THEN <<Tok("punct", ",")>> ELSE <<>>)
                    \o <<Tok("string", x.items[i].key), Tok("punct", ":")>>
                    \o Stringify(x.items[i].value)])
            \o <<Tok("punct", "}")>>
      [] x.t = "string" -> <<Tok("string", x.v)>>
      [] OTHER          -> <<Tok("literal", x.v)>>

\* crypto.createHash("md5").update(text).digest("hex"): the digest of a text,
\* taken as free of collisions on the texts of the model
Md5(text) == [algorithm |-> "md5", of |-> text]
NoHash    == [algorithm |-> "none", of |-> <<>>]

\* lines 112-133
generateSchemaHash(response) == Md5(Stringify(getStructure(response)))

\* Response values the hash is run on.
Leaves == {JNull, JNum("1"), JNum("2"), JStr("x")}
ArraysOver(C) == {JArr(s) : s \in SeqsUpTo(C, MaxItems)}
ObjectsOver(C) ==
    {JObj(<<>>)}
    \cup {JObj(<<KV(k, x)>>) : k \in {"a", "b"}, x \in C}
    \cup {JObj(<<KV("a", x), KV("b", y)>>) : x \in C, y \in C}
    \cup {JObj(<<KV("b", y), KV("a", x)>>) : x \in C, y \in C}
Inner ==
    {JNum("1"), JObj(<<KV("a", JNum("1"))>>),
     JObj(<<KV("a", JNum("1")), KV("b", JStr("x"))>>),
     JObj(<<KV("b", JStr("x")), KV("a", JNum("2"))>>),
     JArr(<<>>), JArr(<<JNum("1")>>)}
HashValues ==
    Leaves \cup ArraysOver(Leaves) \cup ObjectsOver(Leaves)
           \cup ArraysOver(Inner) \cup ObjectsOver(Inner)

(***************************************************************************)
(* A JavaScript Map, as the sequence of its [key, value] pairs in          *)
(* insertion order.  set() on a present key replaces the value and keeps   *)
(* the key's position.                                                     *)
(***************************************************************************)
MapKeys(m) == {m[i].key : i \in 1..Len(m)}
MapHas(m, k) == k \in MapKeys(m)
MapGet(m, k) == m[CHOOSE i \in 1..Len(m) : m[i].key = k].value
MapSet(m, k, v) ==
    IF MapHas(m, k)
    THEN [i \in 1..Len(m) |-> IF m[i].key = k THEN [key |-> k, value |-> v] ELSE m[i]]
    ELSE Append(m, [key |-> k, value |-> v])

RECURSIVE MocksLoop(_, _, _)
MocksLoop(entries, i, m) ==
    IF i > Len(entries) THEN m
    ELSE LET entry == entries[i]
             operationName == extractOperationName(entry.postData)
         IN  IF entry.method # "POST" THEN MocksLoop(entries, i + 1, m)
             ELSE IF operationName = NoName THEN MocksLoop(entries, i + 1, m)
             ELSE IF operationName = INTROSPECTION THEN MocksLoop(entries, i + 1, m)
             ELSE IF entry.response.kind = "none" THEN MocksLoop(entries, i + 1, m)
             ELSE IF entry.response.kind # "json" THEN MocksLoop(entries, i + 1, m)
             ELSE MocksLoop(entries, i + 1, MapSet(m, operationName, entry.response.value))

\* Not wrapped in try/catch: a missing or malformed archive makes it throw.
extractGraphQLMocks(file) ==
    IF file.st # "ok" THEN [threw |-> TRUE, map |-> <<>>]
    ELSE [threw |-> FALSE, map |-> MocksLoop(file.entries, 1, <<>>)]

(***************************************************************************)
(* mock-extractor.ts : saveGraphQLMocksToFiles.  A mock file is kept as    *)
(* the text the generator writes after "export const <name>Mock = " and    *)
(* the schema hash of its header; the lastUpdated stamp is left out.       *)
(***************************************************************************)
Names == {"GetA", "GetB"}

AbsentMock  == [st |-> "absent", text |-> <<>>, schemaHash |-> NoHash]
\* a file of that name that the generator did not write: no parsable export
GarbledMock == [st |-> "garbled", text |-> <<>>, schemaHash |-> NoHash]

\* lines 194-202
MockFileContent(response, schemaHash) ==
    [st |-> "ok", text |-> Stringify(response), schemaHash |-> schemaHash]

\* line 204: fs.writeFile creates the file or replaces its content
WriteFileKeepsExisting(files, fileName, fileContent) ==
    IF files[fileName].st = "absent" THEN [files EXCEPT ![fileName] = fileContent]
    ELSE files
WriteFile(files, fileName, fileContent) == [files EXCEPT ![fileName] = fileContent]

\* lines 183-206
RECURSIVE SaveLoop(_, _, _)
SaveLoop(m, i, files) ==
    IF i > Len(m) THEN files
    ELSE LET operationName == m[i].key
             response == m[i].value
             schemaHash == generateSchemaHash(response)
         IN  SaveLoop(m, i + 1,
                      WriteFile(files, operationName, MockFileContent(response, schemaHash)))

\* lines 174-209: extractGraphQLMocks throws before anything is written
saveGraphQLMocksToFiles(file, files) ==
    LET extracted == extractGraphQLMocks(file)
    IN  IF extracted.threw THEN [threw |-> TRUE, map |-> <<>>, files |-> files]
        ELSE [threw |-> FALSE, map |-> extracted.map,
              files |-> SaveLoop(extracted.map, 1, files)]

(***************************************************************************)
(* JSON.parse on a token text: [ok, value, next], ok = FALSE where it      *)
(* throws a SyntaxError.                                                   *)
(***************************************************************************)
ParseFail == [ok |-> FALSE, value |-> JNull, next |-> 0]
Parsed(x, n) == [ok |-> TRUE, value |-> x, next |-> n]
IsTok(toks, i, tok) == i <= Len(toks) /\ toks[i] = tok

RECURSIVE ParseValue(_, _), ParseItems(_, _, _), ParseMembers(_, _, _)
ParseValue(toks, i) ==
    IF i > Len(toks) THEN ParseFail
    ELSE IF toks[i] = Tok("punct", "[")
         THEN IF IsTok(toks, i + 1, Tok("punct", "]")) THEN Parsed(JArr(<<>>), i + 2)
              ELSE ParseItems(toks, i + 1, <<>>)
    ELSE IF toks[i] = Tok("punct", "{")
         THEN IF IsTok(toks, i + 1, Tok("punct", "}")) THEN Parsed(JObj(<<>>), i + 2)
              ELSE ParseMembers(toks, i + 1, <<>>)
    ELSE IF toks[i][1] = "string" THEN Parsed(JStr(toks[i][2]), i + 1)
    ELSE IF toks[i][1] = "literal"
         THEN Parsed(IF toks[i][2] = "null" THEN JNull ELSE JNum(toks[i][2]), i + 1)
    ELSE ParseFail

ParseItems(toks, i, acc) ==
    LET r == ParseValue(toks, i)
    IN  IF ~r.ok THEN ParseFail
        ELSE IF IsTok(toks, r.next, Tok("punct", ","))
             THEN ParseItems(toks, r.next + 1, Append(acc, r.value))
        ELSE IF IsTok(toks, r.next, Tok("punct", "]"))
             THEN Parsed(JArr(Append(acc, r.value)), r.next + 1)
        ELSE ParseFail

ParseMembers(toks, i, acc) ==
    IF ~(i + 1 <= Len(toks) /\ toks[i][1] = "string" /\ toks[i + 1] = Tok("punct", ":"))
    THEN ParseFail
    ELSE LET r == ParseValue(toks, i + 2)
             member == KV(toks[i][2], r.value)
         IN  IF ~r.ok THEN ParseFail
             ELSE IF IsTok(toks, r.next, Tok("punct", ","))
                  THEN ParseMembers(toks, r.next + 1, Append(acc, member))
             ELSE IF IsTok(toks, r.next, Tok("punct", "}"))
                  THEN Parsed(JObj(Append(acc, member)), r.next + 1)
             ELSE ParseFail

JSONParse(toks) ==
    LET r == ParseValue(toks, 1)
    IN  IF r.ok /\ r.next = Len(toks) + 1 THEN r ELSE ParseFail

(***************************************************************************)
(* validate-mocks.ts                                                       *)
(***************************************************************************)
JUndefined == [t |-> "undefined", v |-> "", items |-> <<>>]

\* JavaScript's !x
Falsy(x) ==
    \/ x.t \in {"null", "undefined"}
    \/ x.t = "number" /\ x.v = "0"
    \/ x.t = "string" /\ x.v = ""

\* obj[key], undefined where obj is no object or has no such property
Member(obj, key) ==
    IF obj.t = "object" /\ key \in ObjKeys(obj) THEN ObjGet(obj, key) ELSE JUndefined

\* mock-extractor.ts line 201: the text of "export const metadata = {...}",
\* which has no property "data" whatever the three values are
MetadataText ==
    Stringify(JObj(<<KV("operationName", JStr("name")), KV("schemaHash", JStr("hash")),
                     KV("lastUpdated", JStr("time"))>>))

\* lines 145-149: the file from the first "= {" on.  That is the exported
\* payload when it is an object, and else the metadata object after it.
FromExportStart(file) ==
    IF IsTok(file.text, 1, Tok("punct", "{"))
    THEN file.text \o <<Tok("punct", ";")>> \o MetadataText
    ELSE MetadataText

\* lines 150-182: the position of the brace that closes the first one, 0 if
\* none does; braces inside strings are not counted (a string is one token)
RECURSIVE BraceEnd(_, _, _)
BraceEnd(content, i, braceCount) ==
    IF i > Len(content) THEN 0
    ELSE LET c == IF content[i] = Tok("punct", "{") THEN braceCount + 1
                  ELSE IF content[i] = Tok("punct", "}") THEN braceCount - 1
                  ELSE braceCount
         IN  IF c = 0 /\ content[i] = Tok("punct", "}") THEN i
             ELSE BraceEnd(content, i + 1, c)

\* lines 132-190; JNull is the null of the early return and of the catch
getMockData(file) ==
    IF file.st # "ok" THEN JNull
    ELSE LET content == FromExportStart(file)
             jsonStr == SubSeq(content, 1, BraceEnd(content, 1, 0))
             mockObject == JSONParse(jsonStr)
         IN  IF ~mockObject.ok THEN JNull ELSE Member(mockObject.value, "data")

\* lines 30-58.  A path is the sequence of the keys that its text joins with
\* dots; property names of GraphQL data hold no dot, so the joining is
\* one-to-one.
RECURSIVE extractFieldPaths(_, _)
extractFieldPaths(data, prefix) ==
    IF data.t \in {"null", "undefined"} THEN {}
    ELSE IF data.t = "array"
         THEN UNION {extractFieldPaths(data.items[i], prefix) : i \in 1..Len(data.items)}
    ELSE IF data.t = "object"
         THEN UNION {LET fieldPath == Append(prefix, data.items[i].key)
                     IN  {fieldPath} \cup extractFieldPaths(data.items[i].value, fieldPath)
                     : i \in 1..Len(data.items)}
    ELSE {}

\* Array.prototype.sort on path texts: by code unit, "." before every letter
KeyIndex(k) == CHOOSE i \in 1..Len(KeyOrder) : KeyOrder[i] = k
RECURSIVE PathBefore(_, _)
PathBefore(p, q) ==
    IF p = <<>> THEN q # <<>>
    ELSE IF q = <<>> THEN FALSE
    ELSE IF Head(p) = Head(q) THEN PathBefore(Tail(p), Tail(q))
    ELSE KeyIndex(Head(p)) < KeyIndex(Head(q))

RECURSIVE SortPaths(_)
SortPaths(S) ==
    IF S = {} THEN <<>>
    ELSE LET first == CHOOSE p \in S : \A q \in S \ {p} : PathBefore(p, q)
         IN  <<first>> \o SortPaths(S \ {first})

\* lines 64-97
compareSchemasSwapped(mockData, liveData) ==
    LET mockFields == extractFieldPaths(mockData, <<>>)
        liveFields == extractFieldPaths(liveData, <<>>)
    IN  [added     |-> SortPaths(mockFields \ liveFields),
         removed   |-> SortPaths(liveFields \ mockFields),
         unchanged |-> SortPaths(liveFields \cap mockFields)]
compareSchemas(mockData, liveData) ==
    LET mockFields == extractFieldPaths(mockData, <<>>)
        liveFields == extractFieldPaths(liveData, <<>>)
    IN  [added     |-> SortPaths(liveFields \ mockFields),
         removed   |-> SortPaths(mockFields \ liveFields),
         unchanged |-> SortPaths(liveFields \cap mockFields)]

\* What fetch and response.json() give for one request: a rejection, a
\* response whose status is not 2xx, or the parsed JSON body of a 2xx response.
Rejects(message) == [kind |-> "rejects", message |-> message, json |-> JNull]
HttpStatus(status) == [kind |-> "status", message |-> status, json |-> JNull]
JsonAnswer(json) == [kind |-> "json", message |-> "", json |-> json]
NoAnswer == [kind |-> "pending", message |-> "", json |-> JNull]

ErrorList(messages) ==
    JArr([i \in 1..Len(messages) |-> JObj(<<KV("message", JStr(messages[i]))>>)])

\* lines 102-127
queryLiveServerDropsErrors(answer) ==
    IF answer.kind = "rejects"
    THEN [errors |-> ErrorList(<<answer.message>>), data |-> JUndefined]
    ELSE IF answer.kind = "status"
    THEN [errors |-> ErrorList(<<answer.message>>), data |-> JUndefined]
    ELSE [errors |-> JUndefined, data |-> Member(answer.json, "data")]
queryLiveServer(answer) ==
    IF answer.kind = "rejects"                                      \* 123-125
    THEN [errors |-> ErrorList(<<answer.message>>), data |-> JUndefined]
    ELSE IF answer.kind = "status"                                  \* 113-115
    THEN [errors |-> ErrorList(<<answer.message>>), data |-> JUndefined]
    ELSE IF ~Falsy(Member(answer.json, "errors"))                   \* 119-121
    THEN [errors |-> Member(answer.json, "errors"), data |-> JUndefined]
    ELSE [errors |-> JUndefined, data |-> Member(answer.json, "data")]

\* line 234: liveResult.errors.map(e => e.message)
ErrorMessages(errors) == [i \in 1..Len(errors.items) |-> Member(errors.items[i], "message").v]

\* line 218
NoMockDataNever(mockData) == FALSE
NoMockData(mockData) == Falsy(mockData)

\* line 244
NoLiveDataOrEmpty(data) == Falsy(data) \/ (data.t = "object" /\ data.items = <<>>)
NoLiveData(data) == Falsy(data)

\* the ValidationResult records; lists tells whether added and removed are set
Result(operationName, status, messages, lists, added, removed) ==
    [operationName |-> operationName, status |-> status, messages |-> messages,
     lists |-> lists, added |-> added, removed |-> removed]

\* lines 217-226
MockMissing(operationName) == Result(operationName, "DRIFT", <<>>, FALSE, <<>>, <<>>)

\* lines 232-294: the result for an operation whose live call has returned
Classify(operationName, mockData, liveResult) ==
    IF ~Falsy(liveResult.errors)
    THEN Result(operationName, "ERROR", ErrorMessages(liveResult.errors), FALSE, <<>>, <<>>)
    ELSE IF NoLiveData(liveResult.data)
    THEN Result(operationName, "REMOVED", <<>>, FALSE, <<>>, <<>>)
    ELSE LET comparison == compareSchemas(mockData, liveResult.data)
         IN  IF Len(comparison.added) = 0 /\ Len(comparison.removed) = 0
             THEN Result(operationName, "OK", <<>>, FALSE, <<>>, <<>>)
             ELSE Result(operationName, "DRIFT", <<>>, TRUE,
                         comparison.added, comparison.removed)

\* line 256 is reached
Compares(liveResult) == Falsy(liveResult.errors) /\ ~NoLiveData(liveResult.data)

(***************************************************************************)
(* record-interactive.ts : mergeHarFiles                                   *)
(***************************************************************************)
\* lines 119-121
userOperationsOf(newOperations) ==
    SelectSeq(newOperations, LAMBDA op : op.operationName # INTROSPECTION)

\* lines 157-173: operation name -> entry of the new recording
RECURSIVE NewOpMapLoop(_, _, _)
NewOpMapLoop(newEntries, i, m) ==
    IF i > Len(newEntries) THEN m
    ELSE LET postData == newEntries[i].postData
             opName   == postData.operationName
         IN  IF postData.kind # "json" THEN NewOpMapLoop(newEntries, i + 1, m)
             ELSE IF opName # NoName /\ opName # INTROSPECTION
                  THEN NewOpMapLoop(newEntries, i + 1, MapSet(m, opName, newEntries[i]))
                  ELSE NewOpMapLoop(newEntries, i + 1, m)

BuildNewOpMap(newEntries) == NewOpMapLoop(newEntries, 1, <<>>)

\* lines 184-206: keep or replace each existing entry; returns the entries
\* pushed so far and processedOps
RECURSIVE KeepReplaceLoop(_, _, _, _, _)
KeepReplaceLoop(existingEntries, newOpMap, i, finalEntries, processedOps) ==
    IF i > Len(existingEntries)
    THEN [finalEntries |-> finalEntries, processedOps |-> processedOps]
    ELSE LET entry    == existingEntries[i]
             postData == entry.postData
             opName   == postData.operationName
         IN  IF postData.kind # "json"
             THEN KeepReplaceLoop(existingEntries, newOpMap, i + 1,
                                  Append(finalEntries, entry), processedOps)
             ELSE IF MapHas(newOpMap, opName)
             THEN KeepReplaceLoop(existingEntries, newOpMap, i + 1,
                                  Append(finalEntries, MapGet(newOpMap, opName)),
                                  processedOps \cup {opName})
             ELSE KeepReplaceLoop(existingEntries, newOpMap, i + 1,
                                  Append(finalEntries, entry), processedOps)

\* lines 209-213: append the new operations that replaced nothing
AppendNew(newOpMap, finalEntries, processedOps) ==
    finalEntries \o
    [i \in 1..Len(SelectSeq(newOpMap, LAMBDA p : p.key \notin processedOps)) |->
        SelectSeq(newOpMap, LAMBDA p : p.key \notin processedOps)[i].value]

\* lines 156-215
MergeEntriesOf(existingEntries, newEntries) ==
    LET newOpMap == BuildNewOpMap(newEntries)
        kept     == KeepReplaceLoop(existingEntries, newOpMap, 1, <<>>, {})
    IN  AppendNew(newOpMap, kept.finalEntries, kept.processedOps)

\* lines 141-154: the names the summary lists as updated / as new
Categorize(userOperations, existingOperations, isUpdate) ==
    LET existingOpNames == {existingOperations[i].operationName :
                                i \in 1..Len(existingOperations)}
        picked == SelectSeq(userOperations,
                    LAMBDA op : (op.operationName \in existingOpNames) = isUpdate)
    IN  [i \in 1..Len(picked) |-> picked[i].operationName]

\* lines 130-138: the existing archive as the merge sees it
ReadExisting(file) ==
    IF file.st \in {"absent", "unparsable"} THEN HarOf(<<>>) ELSE file

\* The first console line of each way mergeHarFiles can end (108, 124, 229, 248).
ReportNoNewFile == "No new HAR file created - no operations were recorded"
ReportNoNewOps  == "No new operations recorded"
ReportUpdated   == "HAR file updated"
ReportError     == "Error merging HAR files"

\* lines 105-111: readFile(newHarPath) throws
NewHarMissingIgnored(new) == FALSE
NewHarMissing(new) == new.st = "absent"

\* line 123
NoUserOperationsIgnored(userOperations) == FALSE
NoUserOperations(userOperations) == Len(userOperations) = 0

\* One whole run of mergeHarFiles on the two files.
MergeRun(existing, new) ==
    LET same(report) == [outcome |-> report, harFile |-> existing, newHarFile |-> new,
                         newOps |-> <<>>, updatedOps |-> <<>>]
        userOperations == userOperationsOf(extractGraphQLOperations(new))
        existingHar == ReadExisting(existing)
        existingOperations ==
            IF existing.st \in {"absent", "unparsable"} THEN <<>>
            ELSE extractGraphQLOperations(existing)
    IN  IF NewHarMissing(new) THEN same(ReportNoNewFile)                  \* 105-111
        ELSE IF new.st \in {"absent", "unparsable"} THEN same(ReportError) \* 113-114, 247
        ELSE IF NoUserOperations(userOperations) THEN same(ReportNoNewOps) \* 123-127
        ELSE IF new.st # "ok" THEN same(ReportError)                      \* 158, 247
        ELSE IF existingHar.st # "ok" THEN same(ReportError)              \* 179, 247
        ELSE [outcome    |-> ReportUpdated,
              harFile    |-> HarOf(MergeEntriesOf(existingHar.entries, new.entries)),
              newHarFile |-> AbsentFile,
              newOps     |-> Categorize(userOperations, existingOperations, FALSE),
              updatedOps |-> Categorize(userOperations, existingOperations, TRUE)]

(***************************************************************************)
(* Spec: one run of the merge on every pair of files within the bounds.    *)
(***************************************************************************)
\* The async activities of a session: 0 is recordInteractive itself, k > 0 the
\* k-th run of the SIGINT handler.
Main  == 0
Procs == 0..MaxSigint
NoLocal == [newHar |-> AbsentFile, userOperations |-> <<>>,
            existingHar |-> AbsentFile, finalEntries |-> <<>>]

SessionIdle ==
    /\ cleanupDone = FALSE
    /\ context = "none"
    /\ capture = AbsentFile
    /\ exited = FALSE
    /\ pc = [p \in Procs |-> "idle"]
    /\ local = [p \in Procs |-> NoLocal]
    /\ reports = [p \in Procs |-> "none"]

HashIdle == v1 = JNull /\ v2 = JNull /\ h1 = NoHash /\ h2 = NoHash /\ hashed = FALSE

ArtifactIdle ==
    /\ mockFiles = [n \in Names |-> AbsentMock]
    /\ mockFilesIn = mockFiles
    /\ saved = "none"

ValidateIdle ==
    /\ userOps = <<>>
    /\ idx = 0
    /\ vpc = "idle"
    /\ results = <<>>
    /\ liveCalls = <<>>
    /\ compared = <<>>

RegistryIdle == registry = <<>> /\ rebuild = "none"

RouteIdle == graphqlMocks = <<>> /\ strictMode = TRUE /\ routed = <<>>

UpdateIdle ==
    /\ upc = "idle"
    /\ updOps = <<>>
    /\ missingOperations = <<>>
    /\ changedOperations = <<>>
    /\ recorded = <<>>
    /\ savedAtDetect = "none"

ToolsIdle == RegistryIdle /\ RouteIdle /\ UpdateIdle

ExtractIdle == operations = <<>> /\ mocks = [threw |-> FALSE, map |-> <<>>] /\ ran = {}

Init ==
    /\ harFile \in FilesOver(MergeEntries, MaxExisting)
    /\ newHarFile \in FilesOver(MergeEntries, MaxNew)
    /\ existingIn = harFile
    /\ newIn = newHarFile
    /\ phase = "ready"
    /\ outcome = "none"
    /\ newOps = <<>>
    /\ updatedOps = <<>>
    /\ ExtractIdle
    /\ SessionIdle
    /\ HashIdle
    /\ ArtifactIdle
    /\ ValidateIdle
    /\ ToolsIdle

mergeHarFiles ==
    /\ phase = "ready"
    /\ LET r == MergeRun(harFile, newHarFile)
       IN  /\ harFile' = r.harFile
           /\ newHarFile' = r.newHarFile
           /\ outcome' = r.outcome
           /\ newOps' = r.newOps
           /\ updatedOps' = r.updatedOps
    /\ phase' = "done"
    /\ UNCHANGED <<existingIn, newIn, extractVars, sessionVars, hashVars, artifactVars, validateVars, toolVars>>

Next == mergeHarFiles

Spec == Init /\ [][Next]_vars

(***************************************************************************)
(* ExtractSpec: the two extractors run on every archive within the bounds. *)
(***************************************************************************)
MergeIdle ==
    /\ newHarFile = AbsentFile
    /\ existingIn = harFile
    /\ newIn = AbsentFile
    /\ phase = "idle"
    /\ outcome = "none"
    /\ newOps = <<>>
    /\ updatedOps = <<>>

ExtractInit ==
    /\ harFile \in FilesOver(ExtractEntries, MaxArchive)
    /\ MergeIdle
    /\ ExtractIdle
    /\ SessionIdle
    /\ HashIdle
    /\ ArtifactIdle
    /\ ValidateIdle
    /\ ToolsIdle

RunExtractOperations ==
    /\ "operations" \notin ran
    /\ operations' = extractGraphQLOperations(harFile)
    /\ ran' = ran \cup {"operations"}
    /\ UNCHANGED <<mergeVars, mocks, sessionVars, hashVars, artifactVars, validateVars, toolVars>>

RunExtractMocks ==
    /\ "mocks" \notin ran
    /\ mocks' = extractGraphQLMocks(harFile)
    /\ ran' = ran \cup {"mocks"}
    /\ UNCHANGED <<mergeVars, operations, sessionVars, hashVars, artifactVars, validateVars, toolVars>>

ExtractNext == RunExtractOperations \/ RunExtractMocks

ExtractSpec == ExtractInit /\ [][ExtractNext]_vars

(***************************************************************************)
(* SessionSpec: one interactive recording session (recordInteractive,      *)
(* lines 62-95).  Node runs one callback at a time, so a step is the code  *)
(* between two awaits; the steps of the main function and of the SIGINT    *)
(* handlers interleave at the awaits.  pc names the await an activity is   *)
(* suspended at:                                                           *)
(*   waiting       page.waitForTimeout(300000)            line 88          *)
(*   c_context     context.close()                        line 70          *)
(*   c_sleep       setTimeout(resolve, 1000)              line 72          *)
(*   c_browser     browser.close()                        line 73          *)
(*   m_check       readFile(newHarPath)                   line 106         *)
(*   m_readNew     readFile(newHarPath)                   line 113         *)
(*   m_extractNew  extractGraphQLOperations(newHarPath)   line 116         *)
(*   m_readExisting    readFile(HAR_PATH)                 line 133         *)
(*   m_extractExisting extractGraphQLOperations(HAR_PATH) line 135         *)
(*   m_write       writeFile(HAR_PATH, ...)               line 218         *)
(*   m_unlink      unlink(newHarPath)                     line 222         *)
(***************************************************************************)
SessionArchives == {AbsentFile, HarOf(<<eA1>>)}
SessionCaptures == {HarOf(<<>>), HarOf(<<eA2>>), HarOf(<<eB>>)}

SessionInit ==
    /\ harFile \in SessionArchives
    /\ newHarFile = AbsentFile
    /\ existingIn = harFile
    /\ newIn = AbsentFile
    /\ phase = "idle"
    /\ outcome = "none"
    /\ newOps = <<>>
    /\ updatedOps = <<>>
    /\ ExtractIdle
    /\ cleanupDone = FALSE
    /\ context = "open"
    /\ capture \in SessionCaptures
    /\ exited = FALSE
    /\ pc = [p \in Procs |-> IF p = Main THEN "waiting" ELSE "idle"]
    /\ local = [p \in Procs |-> NoLocal]
    /\ reports = [p \in Procs |-> "none"]
    /\ HashIdle
    /\ ArtifactIdle
    /\ ValidateIdle
    /\ ToolsIdle

fileVars == <<harFile, newHarFile>>
quiet == <<existingIn, newIn, phase, outcome, newOps, updatedOps, extractVars, capture, hashVars, artifactVars, validateVars, toolVars>>

\* lines 64-70: the synchronous head of cleanup(), then the caller's next await
CleanupEnter(p) ==
    IF cleanupDone
    THEN /\ pc' = [pc EXCEPT ![p] = "m_check"]       \* 65, then mergeHarFiles()
         /\ UNCHANGED <<cleanupDone, context>>
    ELSE /\ cleanupDone' = TRUE                      \* 66
         /\ context' = IF context = "open" THEN "closing" ELSE context
         /\ pc' = [pc EXCEPT ![p] = "c_context"]     \* 70

\* line 88 resolves: the five minutes are over
WaitExpires ==
    /\ ~exited /\ pc[Main] = "waiting" /\ context = "open"
    /\ CleanupEnter(Main)
    /\ UNCHANGED <<fileVars, quiet, exited, local, reports>>

\* line 88 rejects: the page went away (closed by the user or by cleanup)
WaitRejected ==
    /\ ~exited /\ pc[Main] = "waiting" /\ context # "open"
    /\ CleanupEnter(Main)
    /\ UNCHANGED <<fileVars, quiet, exited, local, reports>>

\* the user closes the browser window
BrowserClosedByUser ==
    /\ ~exited /\ context = "open"
    /\ context' = "dead"
    /\ UNCHANGED <<fileVars, quiet, cleanupDone, exited, pc, local, reports>>

\* lines 79-80: SIGINT is delivered and the handler calls cleanup()
Sigint(h) ==
    /\ ~exited /\ h # Main /\ pc[h] = "idle"
    /\ \A k \in 1..(h - 1) : pc[k] # "idle"
    /\ CleanupEnter(h)
    /\ UNCHANGED <<fileVars, quiet, exited, local, reports>>

\* line 70 returns: the HAR is flushed to HAR_PATH.new; on a browser that is
\* gone the call fails, the catch at 74 swallows it and cleanup returns
ContextClosed(p) ==
    /\ ~exited /\ pc[p] = "c_context"
    /\ \/ /\ context = "closing"
          /\ context' = "closed"
          /\ newHarFile' = capture
          /\ pc' = [pc EXCEPT ![p] = "c_sleep"]
       \/ /\ context = "dead"
          /\ UNCHANGED <<context, newHarFile>>
          /\ pc' = [pc EXCEPT ![p] = "m_check"]
    /\ UNCHANGED <<harFile, quiet, cleanupDone, exited, local, reports>>

\* line 72: the timer fires
SleepOver(p) ==
    /\ ~exited /\ pc[p] = "c_sleep"
    /\ pc' = [pc EXCEPT ![p] = "c_browser"]
    /\ UNCHANGED <<fileVars, quiet, cleanupDone, context, exited, local, reports>>

\* line 73 returns, cleanup returns, the caller calls mergeHarFiles()
BrowserClosed(p) ==
    /\ ~exited /\ pc[p] = "c_browser"
    /\ pc' = [pc EXCEPT ![p] = "m_check"]
    /\ UNCHANGED <<fileVars, quiet, cleanupDone, context, exited, local, reports>>

\* mergeHarFiles returns to its caller with a report: the main function ends
\* (line 95), the handler calls process.exit(0) (line 83)
MergeReturns(p, report) ==
    /\ pc' = [pc EXCEPT ![p] = "done"]
    /\ local' = [local EXCEPT ![p] = NoLocal]
    /\ reports' = [reports EXCEPT ![p] = report]
    /\ exited' = (p # Main)

\* lines 105-113
MergeCheck(p) ==
    /\ ~exited /\ pc[p] = "m_check"
    /\ IF NewHarMissing(newHarFile)
       THEN MergeReturns(p, ReportNoNewFile)
       ELSE /\ pc' = [pc EXCEPT ![p] = "m_readNew"]
            /\ UNCHANGED <<local, reports, exited>>
    /\ UNCHANGED <<fileVars, quiet, cleanupDone, context>>

\* lines 113-116
MergeReadNew(p) ==
    /\ ~exited /\ pc[p] = "m_readNew"
    /\ IF newHarFile.st \in {"absent", "unparsable"}
       THEN MergeReturns(p, ReportError)
       ELSE /\ local' = [local EXCEPT ![p].newHar = newHarFile]
            /\ pc' = [pc EXCEPT ![p] = "m_extractNew"]
            /\ UNCHANGED <<reports, exited>>
    /\ UNCHANGED <<fileVars, quiet, cleanupDone, context>>

\* lines 116-133
MergeExtractNew(p) ==
    /\ ~exited /\ pc[p] = "m_extractNew"
    /\ LET userOperations == userOperationsOf(extractGraphQLOperations(newHarFile))
       IN  IF NoUserOperations(userOperations)
           THEN MergeReturns(p, ReportNoNewOps)
           ELSE /\ local' = [local EXCEPT ![p].userOperations = userOperations]
                /\ pc' = [pc EXCEPT ![p] = "m_readExisting"]
                /\ UNCHANGED <<reports, exited>>
    /\ UNCHANGED <<fileVars, quiet, cleanupDone, context>>

\* lines 156-218 on the values the run has read: the entries it will write
MergeCompute(p, existingHar) ==
    IF local[p].newHar.st # "ok" \/ existingHar.st # "ok"
    THEN MergeReturns(p, ReportError)
    ELSE /\ local' = [local EXCEPT ![p].existingHar = existingHar,
                                   ![p].finalEntries =
                                       MergeEntriesOf(existingHar.entries,
                                                      local[p].newHar.entries)]
         /\ pc' = [pc EXCEPT ![p] = "m_write"]
         /\ UNCHANGED <<reports, exited>>

\* lines 133-138: the read fails and the stand-in is used, or line 135 is awaited
MergeReadExisting(p) ==
    /\ ~exited /\ pc[p] = "m_readExisting"
    /\ IF harFile.st \in {"absent", "unparsable"}
       THEN MergeCompute(p, ReadExisting(harFile))
       ELSE /\ local' = [local EXCEPT ![p].existingHar = harFile]
            /\ pc' = [pc EXCEPT ![p] = "m_extractExisting"]
            /\ UNCHANGED <<reports, exited>>
    /\ UNCHANGED <<fileVars, quiet, cleanupDone, context>>

\* lines 135-218
MergeExtractExisting(p) ==
    /\ ~exited /\ pc[p] = "m_extractExisting"
    /\ MergeCompute(p, local[p].existingHar)
    /\ UNCHANGED <<fileVars, quiet, cleanupDone, context>>

\* lines 218-222
MergeWrite(p) ==
    /\ ~exited /\ pc[p] = "m_write"
    /\ harFile' = HarOf(local[p].finalEntries)
    /\ pc' = [pc EXCEPT ![p] = "m_unlink"]
    /\ UNCHANGED <<newHarFile, quiet, cleanupDone, context, exited, local, reports>>

\* lines 222-246
MergeUnlink(p) ==
    /\ ~exited /\ pc[p] = "m_unlink"
    /\ newHarFile' = AbsentFile
    /\ MergeReturns(p, ReportUpdated)
    /\ UNCHANGED <<harFile, quiet, cleanupDone, context>>

\* nothing is pending any more: node ends the process
EventLoopEmpty ==
    /\ ~exited /\ pc[Main] = "done"
    /\ \A h \in Procs \ {Main} : pc[h] \in {"idle", "done"}
    /\ exited' = TRUE
    /\ UNCHANGED <<fileVars, quiet, cleanupDone, context, pc, local, reports>>

SessionNext ==
    \/ WaitExpires
    \/ WaitRejected
    \/ BrowserClosedByUser
    \/ EventLoopEmpty
    \/ \E h \in Procs : Sigint(h)
    \/ \E p \in Procs : ContextClosed(p)
    \/ \E p \in Procs : SleepOver(p)
    \/ \E p \in Procs : BrowserClosed(p)
    \/ \E p \in Procs : MergeCheck(p)
    \/ \E p \in Procs : MergeReadNew(p)
    \/ \E p \in Procs : MergeExtractNew(p)
    \/ \E p \in Procs : MergeReadExisting(p)
    \/ \E p \in Procs : MergeExtractExisting(p)
    \/ \E p \in Procs : MergeWrite(p)
    \/ \E p \in Procs : MergeUnlink(p)

SessionSpec == SessionInit /\ [][SessionNext]_vars

(***************************************************************************)
(* HashSpec: generateSchemaHash on every pair of response values.          *)
(***************************************************************************)
HashInit ==
    /\ harFile = AbsentFile
    /\ MergeIdle
    /\ ExtractIdle
    /\ SessionIdle
    /\ v1 \in HashValues
    /\ v2 \in HashValues
    /\ h1 = NoHash
    /\ h2 = NoHash
    /\ hashed = FALSE
    /\ ArtifactIdle
    /\ ValidateIdle
    /\ ToolsIdle

RunGenerateSchemaHash ==
    /\ ~hashed
    /\ h1' = generateSchemaHash(v1)
    /\ h2' = generateSchemaHash(v2)
    /\ hashed' = TRUE
    /\ UNCHANGED <<mergeVars, extractVars, sessionVars, v1, v2, artifactVars, validateVars, toolVars>>

HashNext == RunGenerateSchemaHash

HashSpec == HashInit /\ [][HashNext]_vars

(***************************************************************************)
(* SaveSpec: saveGraphQLMocksToFiles runs on every archive within the      *)
(* bounds, over every content of the mock directory.                       *)
(***************************************************************************)
pA1   == JObj(<<KV("data", JObj(<<KV("a", JNum("1"))>>))>>)
pA2   == JObj(<<KV("data", JObj(<<KV("a", JNum("2")), KV("b", JStr("x"))>>))>>)
pB1   == JObj(<<KV("data", JObj(<<KV("b", JArr(<<JObj(<<KV("c", JNum("1"))>>)>>))>>))>>)
pErr  == JObj(<<KV("errors", JArr(<<JObj(<<KV("message", JStr("x"))>>)>>)),
                KV("data", JNull)>>)
pList == JArr(<<JNum("1"), JStr("x")>>)

sA1    == Entry("POST", JsonBody("GetA", qGetA), JsonResponse(pA1))
sA2    == Entry("POST", JsonBody("GetA", qGetA2), JsonResponse(pA2))
sB     == Entry("POST", JsonBody("GetB", qGetB), JsonResponse(pB1))
sBErr  == Entry("POST", JsonBody(NoName, qGetB2), JsonResponse(pErr))
sAList == Entry("POST", JsonBody("GetA", qGetA), JsonResponse(pList))
sIntro == Entry("POST", JsonBody(INTROSPECTION, qIntro), JsonResponse(pA1))

SaveEntries == {sA1, sA2, sB, sBErr, sAList, sIntro, eBNoRes}

\* what the mock directory may hold for a name before the run: nothing, a
\* file the generator did not write, a generated file, a file with a stale hash
PriorMocks ==
    {AbsentMock, GarbledMock,
     MockFileContent(pA1, generateSchemaHash(pA1)),
     MockFileContent(pB1, generateSchemaHash(pA2))}

SaveInit ==
    /\ harFile \in FilesOver(SaveEntries, MaxArchive)
    /\ MergeIdle
    /\ ExtractIdle
    /\ SessionIdle
    /\ HashIdle
    /\ mockFiles \in [Names -> PriorMocks]
    /\ mockFilesIn = mockFiles
    /\ saved = "none"
    /\ ValidateIdle
    /\ ToolsIdle

RunSaveGraphQLMocksToFiles ==
    /\ saved = "none"
    /\ LET r == saveGraphQLMocksToFiles(harFile, mockFiles)
       IN  /\ mocks' = [threw |-> r.threw, map |-> r.map]
           /\ mockFiles' = r.files
           /\ saved' = IF r.threw THEN "threw" ELSE "done"
    /\ UNCHANGED <<mergeVars, operations, ran, sessionVars, hashVars, mockFilesIn, validateVars, toolVars>>

SaveNext == RunSaveGraphQLMocksToFiles

SaveSpec == SaveInit /\ [][SaveNext]_vars

(***************************************************************************)
(* ValidateSpec: validateMocks runs over every archive and mock directory  *)
(* within the bounds; the live server answers each request as it likes.    *)
(***************************************************************************)
pNest  == JObj(<<KV("data", JObj(<<KV("a", JObj(<<KV("b", JNum("1"))>>))>>))>>)
pEmpty == JObj(<<KV("data", JObj(<<>>))>>)

sDIntro == Entry("POST", JsonBody(NoName, qIntro), JsonResponse(pA1))

ValidateEntries == {sA1, sB, sBErr, sIntro, sDIntro}

StoredMocks ==
    {AbsentMock, GarbledMock}
    \cup {MockFileContent(p, generateSchemaHash(p)) : p \in {pA1, pNest, pEmpty, pErr, pList}}

DataAnswer(data) == JsonAnswer(JObj(<<KV("data", data)>>))

LiveAnswers ==
    {Rejects("timeout"), HttpStatus("HTTP 500"),
     JsonAnswer(JObj(<<KV("errors", ErrorList(<<"x", "y">>))>>)),
     JsonAnswer(JObj(<<KV("errors", ErrorList(<<"x">>)), KV("data", JNull)>>)),
     JsonAnswer(JObj(<<KV("data", JObj(<<KV("a", JNum("1"))>>)), KV("errors", ErrorList(<<>>))>>)),
     JsonAnswer(JObj(<<>>)),
     DataAnswer(JNull),
     DataAnswer(JObj(<<>>)),
     DataAnswer(JObj(<<KV("a", JNum("2"))>>)),
     DataAnswer(JObj(<<KV("a", JArr(<<JObj(<<KV("b", JNum("1"))>>)>>))>>)),
     DataAnswer(JObj(<<KV("c", JNum("1")), KV("a", JObj(<<KV("b", JStr("x"))>>))>>))}

ValidateInit ==
    /\ harFile \in FilesOver(ValidateEntries, MaxValidated)
    /\ MergeIdle
    /\ ExtractIdle
    /\ SessionIdle
    /\ HashIdle
    /\ mockFiles \in [Names -> StoredMocks]
    /\ mockFilesIn = mockFiles
    /\ saved = "none"
    /\ ValidateIdle
    /\ ToolsIdle

\* line 230: the loop is suspended at its position until the answer is there
QueryLiveServerNotAwaited(i) == [vpc |-> "getMockData", idx |-> i + 1]
AwaitQueryLiveServer(i) == [vpc |-> "queryLiveServer", idx |-> i]

\* lines 200-211
ValidateStart ==
    /\ vpc = "idle"
    /\ userOps' = SelectSeq(extractGraphQLOperations(harFile),
                            LAMBDA op : op.operationName # INTROSPECTION)
    /\ idx' = 1
    /\ vpc' = "getMockData"
    /\ UNCHANGED <<mergeVars, extractVars, sessionVars, hashVars, artifactVars, toolVars,
                   results, liveCalls, compared>>

\* lines 213-230: getMockData returns; without mock data the result is
\* pushed, else the request goes out to the live server
ValidateGetMockData ==
    /\ vpc = "getMockData"
    /\ idx <= Len(userOps)
    /\ LET operationName == userOps[idx].operationName
           mockData == getMockData(mockFiles[operationName])
       IN  IF NoMockData(mockData)
           THEN /\ results' = Append(results, MockMissing(operationName))
                /\ idx' = idx + 1
                /\ UNCHANGED <<vpc, liveCalls>>
           ELSE /\ liveCalls' = Append(liveCalls, [operationName |-> operationName,
                                                   query |-> userOps[idx].query,
                                                   answer |-> NoAnswer])
                /\ vpc' = AwaitQueryLiveServer(idx).vpc
                /\ idx' = AwaitQueryLiveServer(idx).idx
                /\ UNCHANGED results
    /\ UNCHANGED <<mergeVars, extractVars, sessionVars, hashVars, artifactVars, toolVars,
                   userOps, compared>>

\* lines 230-296: queryLiveServer returns and the result is pushed
ValidateLiveAnswer ==
    /\ vpc = "queryLiveServer"
    /\ \E answer \in LiveAnswers :
           LET operationName == userOps[idx].operationName
               mockData == getMockData(mockFiles[operationName])
               liveResult == queryLiveServer(answer)
           IN  /\ liveCalls' = [liveCalls EXCEPT ![Len(liveCalls)].answer = answer]
               /\ results' = Append(results, Classify(operationName, mockData, liveResult))
               /\ compared' = IF Compares(liveResult) THEN Append(compared, operationName)
                              ELSE compared
    /\ idx' = idx + 1
    /\ vpc' = "getMockData"
    /\ UNCHANGED <<mergeVars, extractVars, sessionVars, hashVars, artifactVars, toolVars, userOps>>

\* line 297
ValidateReturn ==
    /\ vpc = "getMockData"
    /\ idx > Len(userOps)
    /\ vpc' = "done"
    /\ UNCHANGED <<mergeVars, extractVars, sessionVars, hashVars, artifactVars, toolVars,
                   userOps, idx, results, liveCalls, compared>>

ValidateNext ==
    ValidateStart \/ ValidateGetMockData \/ ValidateLiveAnswer \/ ValidateReturn

ValidateSpec == ValidateInit /\ [][ValidateNext]_vars

(***************************************************************************)
(* update-registry.ts : updateMockRegistry, and RegistrySpec: mock files   *)
(* are created and deleted, and the registry is rebuilt, in any order.     *)
(***************************************************************************)
\* the mock file names in the order Array.prototype.sort gives them
NameOrder == <<"GetA", "GetB">>

DirEntry(base, suffix) == [base |-> base, suffix |-> suffix]

\* line 18: the listing of mocks/graphql, which also holds the two modules
Readdir(files) ==
    {DirEntry(n, ".mock.ts") : n \in {m \in Names : files[m].st # "absent"}}
    \cup {DirEntry("mock-registry", ".ts"), DirEntry("mock-extractor", ".ts")}

\* lines 19-21 and 33: the base names of the files kept by the filter, sorted
MockFilesOf(listing) ==
    LET kept == {f \in listing : f.suffix = ".mock.ts" /\ f # DirEntry("mock-registry", ".ts")}
    IN  SelectSeq(NameOrder, LAMBDA n : n \in {f.base : f \in kept})

\* lines 14-92: the registry file after the call and how the call ended.
\* No mock file is read; with no mock file the call returns before writing.
updateMockRegistry(files, old) ==
    LET baseNames == MockFilesOf(Readdir(files))
    IN  IF Len(baseNames) = 0 THEN [registry |-> old, rebuild |-> "skipped"]    \* 23-26
        ELSE [registry |-> baseNames, rebuild |-> "written"]                    \* 85

RegistryInit ==
    /\ harFile = AbsentFile
    /\ MergeIdle
    /\ ExtractIdle
    /\ SessionIdle
    /\ HashIdle
    /\ mockFiles \in [Names -> StoredMocks]
    /\ mockFilesIn = mockFiles
    /\ saved = "none"
    /\ ValidateIdle
    /\ registry = MockFilesOf(Readdir(mockFiles))
    /\ rebuild = "none"
    /\ RouteIdle
    /\ UpdateIdle

registryQuiet ==
    <<mergeVars, extractVars, sessionVars, hashVars, mockFilesIn, saved, validateVars,
      routeVars, updateVars>>

\* a mock file is generated or written by hand
CreateArtifact ==
    /\ \E n \in Names, f \in StoredMocks \ {AbsentMock} :
           /\ mockFiles[n] # f
           /\ mockFiles' = [mockFiles EXCEPT ![n] = f]
    /\ rebuild' = "none"
    /\ UNCHANGED <<registry, registryQuiet>>

\* a mock file is deleted
DeleteArtifact ==
    /\ \E n \in Names :
           /\ mockFiles[n].st # "absent"
           /\ mockFiles' = [mockFiles EXCEPT ![n] = AbsentMock]
    /\ rebuild' = "none"
    /\ UNCHANGED <<registry, registryQuiet>>

RunUpdateMockRegistry ==
    /\ rebuild = "none"
    /\ LET r == updateMockRegistry(mockFiles, registry)
       IN  registry' = r.registry /\ rebuild' = r.rebuild
    /\ UNCHANGED <<mockFiles, registryQuiet>>

RegistryNext == CreateArtifact \/ DeleteArtifact \/ RunUpdateMockRegistry

RegistrySpec == RegistryInit /\ [][RegistryNext]_vars

(***************************************************************************)
(* mock-helper : setupGraphQLMocks, and InterceptSpec: a page whose        *)
(* requests to the endpoint pass through the route handler.                *)
(***************************************************************************)
MaxRequests == 2

\* what the handler does with the route
Continue         == [kind |-> "continue", status |-> 0, body |-> <<>>, message |-> ""]
Fulfill(s, body) == [kind |-> "fulfill", status |-> s, body |-> body, message |-> ""]
Throw(msg)       == [kind |-> "throw", status |-> 0, body |-> <<>>, message |-> msg]

\* line 110: request.postDataJSON() throws on post data that is not JSON
PostDataJSONThrows(postData) == postData.kind = "text"

\* line 111: postData?.operationName (undefined, here NoName, without it)
RequestOperationName(postData) ==
    IF postData.kind = "json" THEN postData.operationName ELSE NoName

IsIntrospectionNever(operationName) == FALSE

\* line 114
IsIntrospection(operationName) == operationName = INTROSPECTION

\* lines 108-131: the route handler
RouteHandler(registry_, strict, postData) ==
    IF PostDataJSONThrows(postData) THEN Throw("POST data is not a valid JSON object")
    ELSE LET operationName == RequestOperationName(postData)
         IN  IF IsIntrospection(operationName) THEN Continue                      \* 114-117
             ELSE IF MapHas(registry_, operationName)                             \* 119
                  THEN Fulfill(200, Stringify(MapGet(registry_, operationName)))  \* 120-124
             ELSE IF strict THEN Throw("Missing mock for operation")              \* 125-126
             ELSE Continue                                                        \* 127-130

MapOf(pairs) == [i \in 1..Len(pairs) |-> [key |-> pairs[i][1], value |-> pairs[i][2]]]

\* registries the tests may import
Registries ==
    { MapOf(<<>>),
      MapOf(<<<<"GetA", pA1>>>>),
      MapOf(<<<<"GetA", pA2>>, <<"GetB", pB1>>>>),
      MapOf(<<<<"GetB", pErr>>, <<INTROSPECTION, pA1>>>>),
      MapOf(<<<<"GetA", pList>>>>) }

\* post data of the requests the page may send
Requests ==
    { NoBody, TextBody(<<"query", "GetA">>),
      JsonBody("GetA", qGetA), JsonBody("GetB", qGetB), JsonBody(NoName, qGetB2),
      JsonBody(INTROSPECTION, qIntro), JsonBody(NoName, qIntro) }

InterceptInit ==
    /\ harFile = AbsentFile
    /\ MergeIdle
    /\ ExtractIdle
    /\ SessionIdle
    /\ HashIdle
    /\ ArtifactIdle
    /\ ValidateIdle
    /\ RegistryIdle
    /\ graphqlMocks \in Registries
    /\ strictMode \in BOOLEAN           \* STRICT_MOCK_MODE, part_006 line 27
    /\ routed = <<>>
    /\ UpdateIdle

\* the page sends a request matching the route
RouteRequest ==
    /\ Len(routed) < MaxRequests
    /\ \E postData \in Requests :
           routed' = Append(routed, [postData |-> postData,
                                     outcome  |-> RouteHandler(graphqlMocks, strictMode, postData)])
    /\ UNCHANGED <<mergeVars, extractVars, sessionVars, hashVars, artifactVars, validateVars,
                   registryVars, graphqlMocks, strictMode, updateVars>>

InterceptNext == RouteRequest

InterceptSpec == InterceptInit /\ [][InterceptNext]_vars

(***************************************************************************)
(* update-mocks.ts : updateMocks, with hasMockForOperation and             *)
(* hasSchemaChanged of mock-extractor.ts.  UpdateSpec: the mock files may  *)
(* be generated from the archive, then the update script runs once.        *)
(***************************************************************************)
MaxUpdated == 2

\* mock-extractor.ts lines 286-298: fs.access of <name>.mock.ts
hasMockForOperation(operationName, files) == files[operationName].st # "absent"

HashChangedAlways(currentHash, existingHash) == TRUE

\* line 250: currentHash !== existingHash
HashChanged(currentHash, existingHash) == currentHash # existingHash

\* mock-extractor.ts lines 229-263
hasSchemaChanged(operationName, file, files) ==
    LET extracted == extractGraphQLMocks(file)
    IN  IF extracted.threw THEN TRUE                                     \* 260-262
        ELSE IF ~MapHas(extracted.map, operationName) THEN FALSE         \* 238
        ELSE LET currentResponse == MapGet(extracted.map, operationName)
             IN  IF Falsy(currentResponse) THEN FALSE                    \* 238
                 ELSE IF files[operationName].st = "absent" THEN TRUE    \* 244, 260-262
                 ELSE IF files[operationName].schemaHash = NoHash THEN TRUE   \* 245-247
                 ELSE HashChanged(generateSchemaHash(currentResponse),
                                  files[operationName].schemaHash)

\* update-mocks.ts lines 26-29
UserOperations(file) ==
    SelectSeq(extractGraphQLOperations(file), LAMBDA op : op.operationName # INTROSPECTION)

\* lines 31-45: the names pushed to missingOperations and to changedOperations
Detect(file, files) ==
    LET names == [i \in 1..Len(UserOperations(file)) |-> UserOperations(file)[i].operationName]
    IN  [missing |-> SelectSeq(names, LAMBDA n : ~hasMockForOperation(n, files)),
         changed |-> SelectSeq(names, LAMBDA n : hasMockForOperation(n, files)
                                                 /\ hasSchemaChanged(n, file, files))]

\* lines 79-88: the exchange one fetch adds to the recording
Reissued(op, response) == Entry("POST", JsonBody(op.operationName, op.query), response)

\* what the live server may answer to a re-issued operation
LiveResponses == {JsonResponse(pA2), JsonResponse(pErr), NoResponse}

UpdateInit ==
    /\ harFile \in FilesOver(SaveEntries, MaxUpdated)
    /\ MergeIdle
    /\ ExtractIdle
    /\ SessionIdle
    /\ HashIdle
    /\ mockFiles \in [Names -> PriorMocks]
    /\ mockFilesIn = mockFiles
    /\ saved = "none"
    /\ ValidateIdle
    /\ RegistryIdle
    /\ RouteIdle
    /\ UpdateIdle

updateQuiet ==
    <<mergeVars, extractVars, sessionVars, hashVars, artifactVars, validateVars,
      registryVars, routeVars>>

\* npm run mock:extract before the update script is started
UpdateGenerate == upc = "idle" /\ RunSaveGraphQLMocksToFiles

\* lines 22-50: detection, and the return when nothing is missing or changed
UpdateDetect ==
    /\ upc = "idle"
    /\ LET found == Detect(harFile, mockFiles)
       IN  /\ missingOperations' = found.missing
           /\ changedOperations' = found.changed
           /\ upc' = IF Len(found.missing) = 0 /\ Len(found.changed) = 0
                     THEN "done" ELSE "record"
    /\ updOps' = UserOperations(harFile)
    /\ savedAtDetect' = saved
    /\ UNCHANGED <<harFile, newHarFile, existingIn, newIn, phase, outcome, newOps, updatedOps,
                   recorded, extractVars, sessionVars, hashVars, artifactVars, validateVars,
                   registryVars, routeVars>>

\* lines 77-91: one iteration of the re-recording loop
UpdateReissue ==
    /\ upc = "record"
    /\ Len(recorded) < Len(updOps)
    /\ \E response \in LiveResponses :
           recorded' = Append(recorded, Reissued(updOps[Len(recorded) + 1], response))
    /\ UNCHANGED <<upc, updOps, missingOperations, changedOperations, savedAtDetect, updateQuiet>>

\* lines 93-94: context.close() writes the recording to HAR_PATH
UpdateClose ==
    /\ upc = "record"
    /\ Len(recorded) = Len(updOps)
    /\ harFile' = HarOf(recorded)
    /\ upc' = "done"
    /\ UNCHANGED <<newHarFile, existingIn, newIn, phase, outcome, newOps, updatedOps,
                   updOps, missingOperations, changedOperations, recorded, savedAtDetect,
                   extractVars, sessionVars, hashVars, artifactVars, validateVars,
                   registryVars, routeVars>>

UpdateNext == UpdateGenerate \/ UpdateDetect \/ UpdateReissue \/ UpdateClose

UpdateSpec == UpdateInit /\ [][UpdateNext]_vars

(***************************************************************************)
(* Vocabulary of the properties.  The operation name an exchange carries,  *)
(* as section 4.1 defines it: a body-bearing (POST) call whose body parses,*)
(* named by its operationName field or else by the identifier after the    *)
(* leading query/mutation keyword; IntrospectionQuery is no user operation.*)
(***************************************************************************)
NameInBody(e) ==
    IF e.method = "POST" /\ e.postData.kind = "json"
    THEN IF e.postData.operationName # NoName THEN e.postData.operationName
         ELSE RegexName(e.postData.query)
    ELSE NoName

UserOpName(e) == IF NameInBody(e) = INTROSPECTION THEN NoName ELSE NameInBody(e)

UserOpNames(entries) == {UserOpName(entries[i]) : i \in 1..Len(entries)} \ {NoName}

Positions(entries, n) == {i \in 1..Len(entries) : UserOpName(entries[i]) = n}

FirstIndex(entries, n) ==
    CHOOSE i \in Positions(entries, n) : \A j \in Positions(entries, n) : i <= j

LastIndex(entries, n) ==
    CHOOSE i \in Positions(entries, n) : \A j \in Positions(entries, n) : j <= i

Range(seq) == {seq[i] : i \in 1..Len(seq)}

\* The merge ran on two parsed archives, the new one holding a user operation.
MergedTwoArchives ==
    /\ phase = "done"
    /\ existingIn.st = "ok"
    /\ newIn.st = "ok"
    /\ UserOpNames(newIn.entries) # {}

\* C1 (as claimed): after the merge of an existing archive with a new archive
\* holding at least one user operation, (a) every existing entry whose operation
\* name occurs in the new archive is replaced at its position by a new-archive
\* entry of that name, (b) every other existing entry is unchanged at its
\* position, (c) the new-archive operations whose names do not occur in the
\* existing archive follow, in the order they appear in the new archive.
C1_ReplaceKeepAppend ==
    MergedTwoArchives =>
        LET ex  == existingIn.entries
            nw  == newIn.entries
            out == harFile.entries
            brandNew == UserOpNames(nw) \ UserOpNames(ex)
        IN  /\ Len(out) = Len(ex) + Cardinality(brandNew)
            /\ \A i \in 1..Len(ex) :
                  IF UserOpName(ex[i]) \in UserOpNames(nw)
                  THEN /\ out[i] \in Range(nw)
                       /\ UserOpName(out[i]) = UserOpName(ex[i])
                  ELSE out[i] = ex[i]
            /\ \A k \in (Len(ex) + 1)..Len(out) :
                  /\ out[k] \in Range(nw)
                  /\ UserOpName(out[k]) \in brandNew
            /\ \A k, l \in (Len(ex) + 1)..Len(out) :
                  k < l => FirstIndex(nw, UserOpName(out[k])) < FirstIndex(nw, UserOpName(out[l]))

\* C2 (as claimed): the merged archive has exactly E + N entries, E the number
\* of existing entries and N the number of operation names of the new archive
\* that the existing archive does not have.
C2_Cardinality ==
    MergedTwoArchives =>
        Len(harFile.entries) =
            Len(existingIn.entries)
            + Cardinality(UserOpNames(newIn.entries) \ UserOpNames(existingIn.entries))

\* C3 (as claimed): in the merged archive no operation name is carried by two
\* entries, and no exchange of the new archive is placed more than once.
C3_NoDuplicateByName ==
    MergedTwoArchives =>
        LET out == harFile.entries
        IN  \A i, j \in 1..Len(out) :
                i < j => /\ ~(UserOpName(out[i]) # NoName /\ UserOpName(out[i]) = UserOpName(out[j]))
                         /\ ~(out[i] = out[j] /\ out[i] \in Range(newIn.entries)
                                /\ out[i] \notin Range(existingIn.entries))

\* C4 (as claimed): the exchange the merge takes from the new archive for a
\* name, as replacement or as appended entry, is the FIRST exchange of the new
\* archive carrying that name.
C4_FirstOccurrenceWins ==
    MergedTwoArchives =>
        LET ex  == existingIn.entries
            nw  == newIn.entries
            out == harFile.entries
        IN  \A i \in 1..Len(out) :
                (i > Len(ex) \/ out[i] # ex[i]) =>
                    /\ UserOpName(out[i]) \in UserOpNames(nw)
                    /\ out[i] = nw[FirstIndex(nw, UserOpName(out[i]))]

\* The new archive exists and parses but holds no user operation.
NewHasNoUserOperation ==
    /\ newIn.st = "ok"
    /\ UserOpNames(newIn.entries) = {}

\* C5: merging A with a new archive that exists but contains no user operation
\* leaves the stored archive A exactly as it was.
C5_EmptyNewLeavesArchive ==
    (phase = "done" /\ NewHasNoUserOperation) => harFile = existingIn

C5_Witness ==
    /\ phase = "done"
    /\ NewHasNoUserOperation
    /\ Len(newIn.entries) = 2
    /\ existingIn.st = "ok"
    /\ Len(existingIn.entries) = 2
    /\ harFile = existingIn

\* C6: with no new archive file the merge ends without writing the stored
\* archive, and its report is given in that case only: a new archive parsed
\* with zero user operations is reported differently.
C6_NoNewFileDistinct ==
    phase = "done" =>
        /\ (newIn.st = "absent") <=> (outcome = ReportNoNewFile)
        /\ newIn.st = "absent" => (harFile = existingIn /\ newHarFile = newIn)
        /\ NewHasNoUserOperation => outcome = ReportNoNewOps

C6_Witness ==
    /\ phase = "done"
    /\ newIn.st = "absent"
    /\ existingIn.st = "ok"
    /\ Len(existingIn.entries) = 2
    /\ outcome = ReportNoNewFile

\* C7 (as claimed): an existing archive file that is present but cannot be
\* parsed is never overwritten by the merge.
C7_UnreadableExistingIsFatal ==
    (phase = "done" /\ existingIn.st = "unparsable") => harFile = existingIn

\* C9: IntrospectionQuery is neither in the list extractGraphQLOperations
\* returns nor a key of the map extractGraphQLMocks returns, wherever the
\* introspection exchange stands and however it got its name.
C9_IntrospectionExcluded ==
    /\ "operations" \in ran =>
          \A k \in 1..Len(operations) : operations[k].operationName # INTROSPECTION
    /\ "mocks" \in ran => INTROSPECTION \notin MapKeys(mocks.map)

C9_Witness ==
    /\ ran = {"operations", "mocks"}
    /\ harFile.st = "ok"
    /\ Len(harFile.entries) = 3
    /\ harFile.entries[1] = eDIntro
    /\ harFile.entries[3] = eIntro
    /\ Len(operations) = 1
    /\ MapKeys(mocks.map) # {}

\* C10: the operations returned have pairwise distinct names, each with the
\* query of the first POST exchange carrying the name, in order of the names'
\* first appearance in the archive.
C10_FirstOccurrenceInOrder ==
    ("operations" \in ran /\ harFile.st = "ok") =>
        LET entries == harFile.entries
        IN  /\ \A k, l \in 1..Len(operations) :
                  k < l => /\ operations[k].operationName # operations[l].operationName
                           /\ FirstIndex(entries, operations[k].operationName)
                                < FirstIndex(entries, operations[l].operationName)
            /\ \A k \in 1..Len(operations) :
                  /\ operations[k].operationName \in UserOpNames(entries)
                  /\ operations[k].query =
                        entries[FirstIndex(entries, operations[k].operationName)].postData.query

C10_Witness ==
    /\ "operations" \in ran
    /\ harFile = HarOf(<<eA1, eDB, eA2>>)
    /\ Len(operations) = 2
    /\ operations[1].query = qGetA

\* The awaits of mergeHarFiles after its first read and up to its unlink.
PastFirstRead ==
    {"m_readNew", "m_extractNew", "m_readExisting", "m_extractExisting", "m_write", "m_unlink"}

MergesInFlight == {p \in Procs : pc[p] \in PastFirstRead}

\* C8 (as claimed): in every interleaving of one recording session at most one
\* execution of mergeHarFiles is between its first read and its final
\* write/unlink.
C8_OneMergeInFlight == Cardinality(MergesInFlight) <= 1

\* An exchange whose request body is absent or is not JSON.
BadBody(e) == e.postData.kind \in {"none", "text"}

OperationNamesReturned == {operations[k].operationName : k \in 1..Len(operations)}

\* C11: extractGraphQLOperations always returns a list: the empty list for an
\* absent or unparsable archive, and otherwise exactly the user operations of the
\* exchanges with a parsable body, the same list as for the archive without its
\* exchanges whose body is absent or not JSON.
C11_BadEntriesSkipped ==
    "operations" \in ran =>
        /\ harFile.st # "ok" => operations = <<>>
        /\ harFile.st = "ok" =>
              /\ OperationNamesReturned = UserOpNames(harFile.entries)
              /\ operations = extractGraphQLOperations(
                                HarOf(SelectSeq(harFile.entries, LAMBDA e : ~BadBody(e))))

C11_Witness ==
    /\ "operations" \in ran
    /\ harFile = HarOf(<<eTextA, eNoBody, eA1>>)
    /\ Len(operations) = 1
    /\ operations[1].operationName = "GetA"

\* C12 (as claimed): the key set of extractGraphQLMocks is the set of names
\* returned by extractGraphQLOperations that some exchange carries with a
\* present, JSON-parsable response body.
C12_SameFiltering ==
    (ran = {"operations", "mocks"} /\ harFile.st = "ok") =>
        MapKeys(mocks.map) =
            {n \in OperationNamesReturned :
                \E i \in 1..Len(harFile.entries) :
                    /\ UserOpName(harFile.entries[i]) = n
                    /\ harFile.entries[i].response.kind = "json"}

\* Two values of the same structure: the same kind at every position, arrays
\* of the same length, objects with the same key set (in any insertion order).
RECURSIVE SameShape(_, _)
SameShape(x, y) ==
    /\ x.t = y.t
    /\ x.t = "array" =>
          /\ Len(x.items) = Len(y.items)
          /\ \A i \in 1..Len(x.items) : SameShape(x.items[i], y.items[i])
    /\ x.t = "object" =>
          /\ ObjKeys(x) = ObjKeys(y)
          /\ \A k \in ObjKeys(x) : SameShape(ObjGet(x, k), ObjGet(y, k))

\* C13: two values with the same key sets (in any insertion order), the same
\* nesting and array-ness and the same primitive kind at each leaf get the same
\* fingerprint, whatever their leaf values.
C13_StructureOnly == (hashed /\ SameShape(v1, v2)) => h1 = h2

C13_Witness ==
    /\ hashed
    /\ v1 = JObj(<<KV("a", JNum("1")), KV("b", JStr("x"))>>)
    /\ v2 = JObj(<<KV("b", JStr("x")), KV("a", JNum("2"))>>)
    /\ h1 = h2

IsLeaf(x) == x.t \notin {"array", "object"}

\* y is x after one structural change: an object key added or removed, a leaf
\* of another primitive kind, or an array turned from empty to non-empty or
\* back.  The change may lie in any array element (firstOnly = FALSE) or only
\* in first elements (firstOnly = TRUE).
RECURSIVE StructuralChange(_, _, _)
StructuralChange(x, y, firstOnly) ==
    \/ IsLeaf(x) /\ IsLeaf(y) /\ x.t # y.t
    \/ /\ x.t = "array" /\ y.t = "array"
       /\ (Len(x.items) = 0) # (Len(y.items) = 0)
    \/ /\ x.t = "object" /\ y.t = "object"
       /\ \E k \in ObjKeys(x) \cup ObjKeys(y) :
             /\ \/ ObjKeys(y) = ObjKeys(x) \cup {k} /\ k \notin ObjKeys(x)
                \/ ObjKeys(x) = ObjKeys(y) \cup {k} /\ k \notin ObjKeys(y)
             /\ \A j \in (ObjKeys(x) \cap ObjKeys(y)) : ObjGet(x, j) = ObjGet(y, j)
    \/ /\ x.t = "object" /\ y.t = "object" /\ ObjKeys(x) = ObjKeys(y)
       /\ \E k \in ObjKeys(x) :
             /\ StructuralChange(ObjGet(x, k), ObjGet(y, k), firstOnly)
             /\ \A j \in ObjKeys(x) \ {k} : ObjGet(x, j) = ObjGet(y, j)
    \/ /\ x.t = "array" /\ y.t = "array" /\ Len(x.items) = Len(y.items)
       /\ \E i \in (IF firstOnly THEN {1} ELSE 1..Len(x.items)) :
             /\ i <= Len(x.items)
             /\ StructuralChange(x.items[i], y.items[i], firstOnly)
             /\ \A j \in (1..Len(x.items)) \ {i} : x.items[j] = y.items[j]

\* C14 (as claimed): a structural change at any depth changes the fingerprint.
C14_AnyDepth == (hashed /\ StructuralChange(v1, v2, FALSE)) => h1 # h2

\* C14 (amended): a structural change at any depth that is not inside an array
\* element other than the first changes the fingerprint.
C14_SampledDepth == (hashed /\ StructuralChange(v1, v2, TRUE)) => h1 # h2

C14_Witness ==
    /\ hashed
    /\ v1 = JObj(<<KV("a", JArr(<<>>))>>)
    /\ v2 = JObj(<<KV("a", JArr(<<JNum("1")>>))>>)
    /\ StructuralChange(v1, v2, TRUE)
    /\ h1 # h2

\* the payload a mock file holds: what its exported text parses to
PayloadIn(f) == JSONParse(f.text)

HoldsPayload(f, response) ==
    /\ f.st = "ok"
    /\ PayloadIn(f).ok
    /\ PayloadIn(f).value = response
    /\ f.schemaHash = Md5(Stringify(getStructure(response)))

\* C15: after saveGraphQLMocksToFiles has run on an archive, the mock file of
\* every name of the archive's response map holds that name's response and
\* the hash of that response, whatever file of that name was there before.
C15_LatestCaptureWins ==
    saved = "done" =>
        \A i \in 1..Len(mocks.map) :
            HoldsPayload(mockFiles[mocks.map[i].key], mocks.map[i].value)

\* a run that replaced a generated file holding another payload, and a file
\* the generator had not written
C15_Witness ==
    /\ saved = "done"
    /\ \E i \in 1..Len(mocks.map) :
           /\ mockFilesIn[mocks.map[i].key].st = "ok"
           /\ ~HoldsPayload(mockFilesIn[mocks.map[i].key], mocks.map[i].value)
    /\ \E i \in 1..Len(mocks.map) : mockFilesIn[mocks.map[i].key].st = "garbled"
    /\ \A n \in Names : HoldsPayload(mockFiles[n], MapGet(mocks.map, n))

(***************************************************************************)
(* Vocabulary of the validator's properties.  The stored mock of an        *)
(* operation is the data of the response its generated file holds; the     *)
(* live call of an operation is the request sent for it, with its answer.  *)
(***************************************************************************)
StoredData(n) == Member(PayloadIn(mockFiles[n]).value, "data")

MockExists(n) ==
    /\ mockFiles[n].st = "ok"
    /\ PayloadIn(mockFiles[n]).ok
    /\ StoredData(n).t = "object"

Calls(n) == {j \in 1..Len(liveCalls) : liveCalls[j].operationName = n}
Answered(n) == \E j \in Calls(n) : liveCalls[j].answer.kind # "pending"
AnswerFor(n) == liveCalls[CHOOSE j \in Calls(n) : TRUE].answer
LiveData(n) == Member(AnswerFor(n).json, "data")

HasErrorsField(answer) == answer.kind = "json" /\ "errors" \in ObjKeys(answer.json)
LiveFailed(answer) == answer.kind \in {"rejects", "status"} \/ HasErrorsField(answer)
FailureMessages(answer) ==
    IF answer.kind \in {"rejects", "status"} THEN <<answer.message>>
    ELSE LET errors == ObjGet(answer.json, "errors")
         IN  [k \in 1..Len(errors.items) |-> ObjGet(errors.items[k], "message").v]

IsSorted(s) == \A k \in 1..(Len(s) - 1) : PathBefore(s[k], s[k + 1])

\* C16: for an operation whose mock exists and whose live call returned data
\* without errors, added is the sorted list of the live paths the mock lacks,
\* removed the sorted list of the mock paths the live data lacks, and the
\* status is OK when both are empty and DRIFT otherwise.
C16_FieldDiff ==
    \A i \in 1..Len(results) :
        LET r == results[i]
            n == r.operationName
        IN  (MockExists(n) /\ Answered(n) /\ ~LiveFailed(AnswerFor(n))
                /\ LiveData(n).t = "object")
            => LET live == extractFieldPaths(LiveData(n), <<>>)
                   mock == extractFieldPaths(StoredData(n), <<>>)
               IN  /\ Range(r.added) = live \ mock
                   /\ Range(r.removed) = mock \ live
                   /\ IsSorted(r.added) /\ IsSorted(r.removed)
                   /\ r.status = IF live = mock THEN "OK" ELSE "DRIFT"

\* one run with an OK for equal paths under different values, a DRIFT with
\* two added paths and a DRIFT with a removed path
C16_Witness ==
    /\ \E i \in 1..Len(results) :
           /\ results[i].status = "OK"
           /\ MockExists(results[i].operationName)
           /\ StoredData(results[i].operationName) # LiveData(results[i].operationName)
           /\ extractFieldPaths(StoredData(results[i].operationName), <<>>) # {}
    /\ \E i \in 1..Len(results) :
           results[i].status = "DRIFT" /\ Len(results[i].added) = 2
    /\ vpc = "done"

\* C17: for an operation whose mock exists and whose live call returned no
\* errors, the result is REMOVED exactly when the answer has no data (null
\* or absent); an empty object as data is compared, not reported REMOVED.
C17_RemovedIffNoData ==
    \A i \in 1..Len(results) :
        LET r == results[i]
            n == r.operationName
        IN  (MockExists(n) /\ Answered(n) /\ ~LiveFailed(AnswerFor(n)))
            => /\ r.status = "REMOVED" <=> LiveData(n).t \in {"null", "undefined"}
               /\ LiveData(n) = JObj(<<>>)
                    => r.status \in {"OK", "DRIFT"} /\ n \in Range(compared)

C17_Witness ==
    /\ Len(results) = 2
    /\ results[1].status = "REMOVED" /\ MockExists(results[1].operationName)
    /\ LiveData(results[1].operationName).t = "undefined"
    /\ results[2].status = "DRIFT" /\ MockExists(results[2].operationName)
    /\ LiveData(results[2].operationName) = JObj(<<>>)

\* C18: for an operation whose mock exists, a live call that throws, returns
\* a non-OK status or returns an errors field gives ERROR with the failure
\* messages, whatever the data, and nothing is compared for that operation.
C18_LiveFailureIsError ==
    \A i \in 1..Len(results) :
        LET r == results[i]
            n == r.operationName
        IN  (MockExists(n) /\ Answered(n) /\ LiveFailed(AnswerFor(n)))
            => /\ r.status = "ERROR"
               /\ r.messages = FailureMessages(AnswerFor(n))
               /\ ~r.lists
               /\ n \notin Range(compared)

C18_Witness ==
    /\ Len(results) = 2
    /\ results[1].status = "ERROR" /\ AnswerFor(results[1].operationName).kind = "rejects"
    /\ results[2].status = "ERROR" /\ HasErrorsField(AnswerFor(results[2].operationName))
    /\ LiveData(results[2].operationName) = JNull

\* C19: for an operation without a stored mock the validator records one
\* DRIFT result without lists, sends no request for it, and goes on to the
\* next operation; the run ends with a result for every operation.
C19_MissingMockIsDrift ==
    /\ \A i \in 1..Len(userOps) :
           LET n == userOps[i].operationName
               mine == {j \in 1..Len(results) : results[j].operationName = n}
           IN  mockFiles[n].st = "absent"
               => /\ Calls(n) = {}
                  /\ idx = i => vpc = "getMockData"
                  /\ idx > i => /\ Cardinality(mine) = 1
                                /\ \A j \in mine : /\ results[j].status = "DRIFT"
                                                   /\ ~results[j].lists
                                                   /\ results[j].added = <<>>
                                                   /\ results[j].removed = <<>>
    /\ vpc = "done" => Len(results) = Len(userOps)

\* a finished run whose first operation had no mock and whose second was
\* then sent to the live server
C19_Witness ==
    /\ vpc = "done"
    /\ Len(userOps) = 2
    /\ mockFiles[userOps[1].operationName].st = "absent"
    /\ results[1].status = "DRIFT"
    /\ Answered(userOps[2].operationName)

\* field paths in which an array adds a marker to the paths of its elements
RECURSIVE MarkedPaths(_, _)
MarkedPaths(data, prefix) ==
    IF data.t = "array"
    THEN {Append(prefix, "[]")}
         \cup UNION {MarkedPaths(data.items[i], Append(prefix, "[]")) : i \in 1..Len(data.items)}
    ELSE IF data.t = "object"
    THEN UNION {{Append(prefix, data.items[i].key)}
                \cup MarkedPaths(data.items[i].value, Append(prefix, data.items[i].key))
                : i \in 1..Len(data.items)}
    ELSE {}

\* C20: field paths record array-ness, so mock data and live data whose paths
\* differ once arrays are marked get DRIFT.
C20_ArrayMarker ==
    \A i \in 1..Len(results) :
        LET r == results[i]
            n == r.operationName
        IN  (MockExists(n) /\ Answered(n) /\ ~LiveFailed(AnswerFor(n))
                /\ LiveData(n).t = "object"
                /\ MarkedPaths(StoredData(n), <<>>) # MarkedPaths(LiveData(n), <<>>))
            => r.status = "DRIFT"

\* the exchanges of the archive the validator was run on
Archived == IF harFile.st = "ok" THEN harFile.entries ELSE <<>>

\* C21: a validation run gives exactly one result per user operation of the
\* archive, in the order of the operations' first appearance, and none for
\* IntrospectionQuery.
C21_OneResultPerOperation ==
    /\ \A k, l \in 1..Len(results) :
           k < l => /\ results[k].operationName # results[l].operationName
                    /\ FirstIndex(Archived, results[k].operationName)
                         < FirstIndex(Archived, results[l].operationName)
    /\ \A k \in 1..Len(results) :
           /\ results[k].operationName \in UserOpNames(Archived)
           /\ results[k].operationName # INTROSPECTION
    /\ vpc = "done" => {results[k].operationName : k \in 1..Len(results)} = UserOpNames(Archived)

\* a finished run on an archive that names one operation twice, once by its
\* query text only
C21_Witness ==
    /\ vpc = "done"
    /\ Archived = <<sBErr, sB>>
    /\ Len(results) = 1
    /\ results[1].operationName = "GetB"

Pending == {j \in 1..Len(liveCalls) : liveCalls[j].answer.kind = "pending"}

\* C22: while a live call is outstanding it is the only one, and the result
\* of every operation before the one it was sent for has been recorded.
C22_SequentialLiveCalls ==
    /\ Cardinality(Pending) <= 1
    /\ \A j \in Pending :
           \A i \in 1..Len(userOps) :
               userOps[i].operationName = liveCalls[j].operationName
               => \A k \in 1..(i - 1) :
                      \E m \in 1..Len(results) :
                          results[m].operationName = userOps[k].operationName

\* the second operation's call is outstanding, the first one's was answered
C22_Witness ==
    /\ Len(liveCalls) = 2
    /\ Pending = {2}
    /\ Len(results) = 1
    /\ results[1].status \in {"OK", "ERROR"}

\* C27: a name of the response map carries the response of the first exchange
\* of that name in the archive, later exchanges of the name being ignored.
C27_FirstResponseWins ==
    ("mocks" \in ran /\ harFile.st = "ok") =>
        \A i \in 1..Len(mocks.map) :
            mocks.map[i].key \in UserOpNames(harFile.entries)
            => harFile.entries[FirstIndex(harFile.entries, mocks.map[i].key)].response
                 = JsonResponse(mocks.map[i].value)

\* C28: after a merge that wrote the archive, every name reported as added or
\* as updated is the name of an entry of the merged archive that comes from
\* the new archive.
C28_SummaryAgrees ==
    (phase = "done" /\ outcome = ReportUpdated /\ newIn.st = "ok") =>
        LET reported == newOps \o updatedOps
        IN  \A k \in 1..Len(reported) :
                \E i \in 1..Len(harFile.entries) :
                    /\ UserOpName(harFile.entries[i]) = reported[k]
                    /\ harFile.entries[i] \in Range(newIn.entries)

\* a mergeHarFiles call that has started and has not returned
Merging == {p \in Procs : pc[p] \in PastFirstRead \cup {"m_check"}}

\* C29: while a mergeHarFiles call runs, the recording context is not open
\* and its close (the flush of the new capture) is not still in progress.
C29_MergeAfterFlush == Merging # {} => context \notin {"open", "closing"}

\* the operation names for which a mock file is there
ArtifactNames == {n \in Names : mockFiles[n].st # "absent"}

\* C23: once updateMockRegistry has completed, the keys of the registry are
\* exactly the names for which a mock file exists.
C23_RegistryMatchesArtifacts == rebuild # "none" => Range(registry) = ArtifactNames

\* C24: with a mock file that cannot be parsed, updateMockRegistry does not
\* complete: it fails and leaves the registry file as it was.
C24_UnparsableAborts ==
    (\E n \in Names : mockFiles[n].st = "garbled") => rebuild \in {"none", "failed"}

\* the operation a routed request names: the operationName of its JSON body
Named(k) == IF routed[k].postData.kind = "json" THEN routed[k].postData.operationName ELSE NoName
Registered(name) == \E i \in 1..Len(graphqlMocks) : graphqlMocks[i].key = name
PayloadOf(name) == graphqlMocks[CHOOSE i \in 1..Len(graphqlMocks) : graphqlMocks[i].key = name].value
ReachesLive(k) == routed[k].outcome.kind = "continue"
Readable(k) == routed[k].postData.kind # "text"

\* C25: of the requests the handler can read, an IntrospectionQuery goes to
\* the live server whatever the mode and the registry; a registered
\* operation is answered with its registered payload and does not go to the
\* live server; an operation that is not registered raises the missing-mock
\* error without live traffic in strict mode and goes to the live server in
\* permissive mode.
C25_InterceptorCases ==
    \A k \in 1..Len(routed) :
        Readable(k) =>
            LET o == routed[k].outcome
            IN  CASE Named(k) = INTROSPECTION -> ReachesLive(k)
                  [] Named(k) # INTROSPECTION /\ Registered(Named(k)) ->
                        /\ o.kind = "fulfill"
                        /\ JSONParse(o.body).ok
                        /\ JSONParse(o.body).value = PayloadOf(Named(k))
                        /\ ~ReachesLive(k)
                  [] OTHER ->
                        IF strictMode
                        THEN o.kind = "throw" /\ o.message = "Missing mock for operation" /\ ~ReachesLive(k)
                        ELSE ReachesLive(k)

C25_Witness ==
    /\ Len(routed) = 2
    /\ Registered(INTROSPECTION)
    /\ Named(1) = INTROSPECTION /\ ReachesLive(1)
    /\ Named(2) = "GetB" /\ routed[2].outcome.kind = "fulfill"

\* C26: a finished run of the update script has re-issued every user
\* operation of the archive once, in the order of the archive.
C26_EveryRunReRecordsAll ==
    upc = "done" =>
        /\ Len(recorded) = Len(updOps)
        /\ \A k \in 1..Len(recorded) : UserOpName(recorded[k]) = updOps[k].operationName

\* the names saveGraphQLMocksToFiles generated a mock file for
GeneratedNames == {mocks.map[i].key : i \in 1..Len(mocks.map)}
\* the update script has run its detection on the archive as it still is
Detected == upc = "record" \/ (upc = "done" /\ recorded = <<>>)

\* C30 (as stated): right after the mock files were generated from the
\* archive, hasSchemaChanged is false for every generated name and the
\* detection of the update script finds no missing and no changed operation.
C30_GenerateThenCheck ==
    /\ (saved = "done" /\ upc = "idle") =>
           \A n \in GeneratedNames : ~hasSchemaChanged(n, harFile, mockFiles)
    /\ (Detected /\ savedAtDetect = "done") =>
           missingOperations = <<>> /\ changedOperations = <<>>

\* C30 (amended): right after the mock files were generated from the archive,
\* hasSchemaChanged is false for every generated name and the detection finds
\* no changed operation; the operations it finds missing are exactly the user
\* operations of the archive for which nothing was generated (the archive
\* holds no parsable response for them) and no mock file was there before.
C30_GenerateThenCheckAmended ==
    /\ (saved = "done" /\ upc = "idle") =>
           \A n \in GeneratedNames : ~hasSchemaChanged(n, harFile, mockFiles)
    /\ (Detected /\ savedAtDetect = "done") =>
           /\ changedOperations = <<>>
           /\ Range(missingOperations) =
                  {n \in UserOpNames(Archived) :
                       n \notin GeneratedNames /\ mockFilesIn[n].st = "absent"}

C30_Witness ==
    /\ Detected /\ savedAtDetect = "done"
    /\ GeneratedNames = {"GetA"}
    /\ mockFilesIn["GetA"].st = "ok" /\ mockFilesIn["GetA"] # mockFiles["GetA"]
    /\ missingOperations = <<"GetB">>
    /\ changedOperations = <<>>

====
